---- MODULE Spec2Model ----
(***************************************************************************)
(* A model of zipline/data/adjustments.py: the SQLite adjustment store,    *)
(* SQLiteAdjustmentWriter (write, write_frame, write_dividend_data,        *)
(* calc_dividend_ratios) and SQLiteAdjustmentReader (the point query, the  *)
(* chunked ex-date queries and the table export).                          *)
(*                                                                         *)
(* A DataFrame is [none, dtypes, rows]: none is TRUE for Python's None,    *)
(* dtypes maps each column name to its numpy dtype name, rows is the       *)
(* sequence of rows, each a function from the column names to integers.    *)
(* A datetime64[ns] value is its count of nanoseconds since the epoch, a   *)
(* float64 value is an integer number of hundredths.  The frame index,     *)
(* which to_sql writes as the column "index" and the export turns back     *)
(* into the index, is left out.                                            *)
(*                                                                         *)
(* Every call is synchronous on one connection (no threads), so a call is  *)
(* one action; its store mutations are recorded in order in last.events.   *)
(***************************************************************************)
EXTENDS Integers, Sequences, FiniteSets, TLC

VARIABLES
  db,          \* the SQLite store: its tables, their columns, rows and indices
  calendar,    \* the writer's trading calendar: its sessions, ascending
  bar_reader,  \* the writer's daily bar reader: the close of (sid, session)
  last,        \* the last call: its arguments, outcome, result and cursor,
               \* and the row counts of the tables before it
  history,     \* the writer calls made on the store, in order
  written      \* per table, the rows as given to the writer that it stored

vars == <<db, calendar, bar_reader, last, history, written>>

-----------------------------------------------------------------------------
(* Bounds *)

\* the number of writer calls made on one store
MaxWriterCalls == 2

\* the number of writer calls after which readers still open the store
MaxCallsBeforeRead == 1

-----------------------------------------------------------------------------
(* Schema *)

NsPerSec == 1000000000

SQLITE_ADJUSTMENT_TABLENAMES == {"splits", "dividends", "mergers"}

SQLITE_ADJUSTMENT_COLUMN_DTYPES ==
  [effective_date |-> "int64", ratio |-> "float64", sid |-> "int64"]

SQLITE_DIVIDEND_PAYOUT_COLUMN_DTYPES ==
  [sid |-> "int64", ex_date |-> "int64", declared_date |-> "int64",
   record_date |-> "int64", pay_date |-> "int64", amount |-> "float64"]

SQLITE_STOCK_DIVIDEND_PAYOUT_COLUMN_DTYPES ==
  [sid |-> "int64", ex_date |-> "int64", declared_date |-> "int64",
   record_date |-> "int64", pay_date |-> "int64", payment_sid |-> "int64",
   ratio |-> "float64"]

\* self._datetime_int_cols: the date columns of each table of the store
datetime_int_cols ==
  [dividend_payouts |-> {"declared_date", "ex_date", "pay_date", "record_date"},
   dividends |-> {"effective_date"},
   mergers |-> {"effective_date"},
   splits |-> {"effective_date"},
   stock_dividend_payouts |-> {"declared_date", "ex_date", "pay_date",
                               "record_date"}]

TableNames == DOMAIN datetime_int_cols

\* the ten CREATE INDEX statements of write, in their order
IndexStatements ==
  << <<"splits_sids", "splits">>,
     <<"splits_effective_date", "splits">>,
     <<"mergers_sids", "mergers">>,
     <<"mergers_effective_date", "mergers">>,
     <<"dividends_sid", "dividends">>,
     <<"dividends_effective_date", "dividends">>,
     <<"dividend_payouts_sid", "dividend_payouts">>,
     <<"dividends_payouts_ex_date", "dividend_payouts">>,
     <<"stock_dividend_payouts_sid", "stock_dividend_payouts">>,
     <<"stock_dividends_payouts_ex_date", "stock_dividend_payouts">> >>

-----------------------------------------------------------------------------
(* Frames *)

NoneFrame == [none |-> TRUE, dtypes |-> <<>>, rows |-> <<>>]

DataFrame(dtypes, rows) == [none |-> FALSE, dtypes |-> dtypes, rows |-> rows]

\* frame is None or frame.empty
IsNoneOrEmpty(frame) == frame.none \/ frame.rows = <<>>

\* the outcome of one step of a call: the store after it, the exception it
\* raised ("none" when it returned), the store mutations it made, in order,
\* and the (sid, session) lookups it made in the bar reader, in order
StepL(d, exc, events, lookups) ==
  [db |-> d, exc |-> exc, events |-> events, lookups |-> lookups]

Step(d, exc, events) == StepL(d, exc, events, <<>>)

\* Python's sequencing: the next statement, whose outcome on the store r left
\* is q, runs only if nothing was raised
Then(r, q) ==
  IF r.exc # "none" THEN r
  ELSE StepL(q.db, q.exc, r.events \o q.events, r.lookups \o q.lookups)

-----------------------------------------------------------------------------
(* Writer *)

\* np.issubdtype on the dtypes a frame of this model carries (int32, int64,
\* uint32, float64, datetime64[ns]): none of them is a subtype of another
issubdtype(actual, expected) == actual = expected

\* frame.to_sql(tablename, conn, if_exists='append'): creates the table with
\* the frame's columns when it does not exist, then inserts the rows
to_sql(d, tablename, frame) ==
  Step([d EXCEPT !.exists = @ \cup {tablename},
                 !.cols[tablename] =
                    IF tablename \in d.exists THEN @ ELSE frame.dtypes,
                 !.rows[tablename] = @ \o frame.rows],
       "none", << <<"to_sql", tablename>> >>)

\* _write without the comparison of the column sets: the columns the frame
\* has are checked, the others ignored
write_without_column_check(d, tablename, expected_dtypes, frame) ==
  IF IsNoneOrEmpty(frame)
  THEN to_sql(d, tablename, DataFrame(expected_dtypes, <<>>))
  ELSE IF \E colname \in DOMAIN expected_dtypes \cap DOMAIN frame.dtypes :
            ~issubdtype(frame.dtypes[colname], expected_dtypes[colname])
       THEN Step(d, "TypeError", <<>>)
       ELSE to_sql(d, tablename, frame)

\* _write returning early for None or an empty frame
write_skipping_empty(d, tablename, expected_dtypes, frame) ==
  IF IsNoneOrEmpty(frame)
  THEN Step(d, "none", <<>>)
  ELSE IF DOMAIN frame.dtypes # DOMAIN expected_dtypes
       THEN Step(d, "ValueError", <<>>)
       ELSE IF \E colname \in DOMAIN expected_dtypes :
                 ~issubdtype(frame.dtypes[colname], expected_dtypes[colname])
            THEN Step(d, "TypeError", <<>>)
            ELSE to_sql(d, tablename, frame)

write_(d, tablename, expected_dtypes, frame) ==
  IF IsNoneOrEmpty(frame)
  THEN to_sql(d, tablename, DataFrame(expected_dtypes, <<>>))
  ELSE IF DOMAIN frame.dtypes # DOMAIN expected_dtypes
       THEN Step(d, "ValueError", <<>>)
       ELSE IF \E colname \in DOMAIN expected_dtypes :
                 ~issubdtype(frame.dtypes[colname], expected_dtypes[colname])
            THEN Step(d, "TypeError", <<>>)
            ELSE to_sql(d, tablename, frame)

\* values.astype('datetime64[s]').astype('int64') on one value of a column of
\* dtype kind: a datetime64[ns] value is floored to whole seconds, an integer
\* is taken as a count of seconds
astype_seconds(kind, v) ==
  IF kind = "datetime64[ns]" THEN v \div NsPerSec ELSE v

\* frame[col] = frame[col].values.astype('datetime64[s]').astype('int64')
encode_column(frame, col) ==
  DataFrame([frame.dtypes EXCEPT ![col] = "int64"],
            [i \in 1..Len(frame.rows) |->
               [frame.rows[i] EXCEPT
                  ![col] = astype_seconds(frame.dtypes[col], @)]])

write_frame(d, tablename, frame) ==
  IF tablename \notin SQLITE_ADJUSTMENT_TABLENAMES
  THEN Step(d, "ValueError", <<>>)
  ELSE IF IsNoneOrEmpty(frame)
       THEN write_(d, tablename, SQLITE_ADJUSTMENT_COLUMN_DTYPES, frame)
       ELSE IF "effective_date" \notin DOMAIN frame.dtypes
            THEN Step(d, "KeyError", <<>>)
            ELSE write_(d, tablename, SQLITE_ADJUSTMENT_COLUMN_DTYPES,
                        encode_column(frame, "effective_date"))

\* the four date columns _write_dividends and _write_stock_dividends encode,
\* in the order of the assignments
PayoutDateColumns == <<"ex_date", "record_date", "declared_date", "pay_date">>

RECURSIVE encode_columns(_, _)
encode_columns(frame, columns) ==
  IF columns = <<>> THEN frame
  ELSE encode_columns(encode_column(frame, Head(columns)), Tail(columns))

Range(seq) == {seq[i] : i \in DOMAIN seq}

write_dividend_payouts(d, frame) ==
  write_(d, "dividend_payouts", SQLITE_DIVIDEND_PAYOUT_COLUMN_DTYPES, frame)

write_stock_dividend_payouts(d, frame) ==
  write_(d, "stock_dividend_payouts",
         SQLITE_STOCK_DIVIDEND_PAYOUT_COLUMN_DTYPES, frame)

\* a frame that is not None is copied and its date columns are encoded
\* whether or not it is empty: a missing date column is a KeyError
write_dividends_(d, dividends) ==
  IF dividends.none THEN write_dividend_payouts(d, dividends)
  ELSE IF ~(Range(PayoutDateColumns) \subseteq DOMAIN dividends.dtypes)
       THEN Step(d, "KeyError", <<>>)
       ELSE write_dividend_payouts(
              d, encode_columns(dividends, PayoutDateColumns))

write_stock_dividends_(d, stock_dividends) ==
  IF stock_dividends.none THEN write_stock_dividend_payouts(d, stock_dividends)
  ELSE IF ~(Range(PayoutDateColumns) \subseteq DOMAIN stock_dividends.dtypes)
       THEN Step(d, "KeyError", <<>>)
       ELSE write_stock_dividend_payouts(
              d, encode_columns(stock_dividends, PayoutDateColumns))

\* the attributes of the numpy module this file reads through np.  numpy
\* provides no attribute isnull (isnull is pandas'), so evaluating np.isnull
\* raises AttributeError
NumpyNamespace == {"array", "full", "nan", "issubdtype"}

\* tz_naive_calendar.get_indexer([ex_date], method='bfill')[0]: the 0-based
\* position of the first session at or after ex_date, -1 when there is none
get_indexer_bfill(cal, ex_date) ==
  IF \E i \in 1..Len(cal) : cal[i] >= ex_date
  THEN (CHOOSE i \in 1..Len(cal) :
          /\ cal[i] >= ex_date
          /\ \A j \in 1..(i - 1) : cal[j] < ex_date) - 1
  ELSE -1

\* calendar[loc] with Python's indexing: a negative loc counts from the end;
\* the result is <<"ok", session>> or <<"IndexError">>
calendar_getitem(cal, loc) ==
  LET pos == IF loc < 0 THEN loc + Len(cal) ELSE loc
  IN  IF pos < 0 \/ pos >= Len(cal) THEN <<"IndexError">>
      ELSE <<"ok", cal[pos + 1]>>

\* equity_daily_bar_reader.get_value(sid, day, 'close'): [kind, close] with
\* kind "close" (close is the price in hundredths), "nan" (the missing
\* value) or "NoDataOnDate" (the reader raises it)
get_value(reader, sid, day) ==
  IF <<sid, day>> \in DOMAIN reader THEN reader[<<sid, day>>]
  ELSE [kind |-> "NoDataOnDate", close |-> 0]

\* 1.0 - amount / prev_close, in hundredths; the amounts and closes of the
\* model divide exactly
dividend_ratio(amount, prev_close) == 100 - (amount * 100) \div prev_close

\* .astype('datetime64[ns]').astype('datetime64[s]').astype(uint32_dtype)
effective_date_uint32(ex_date) == (ex_date \div NsPerSec) % (65536 * 65536)

\* the loop of calc_dividend_ratios from row i on: acc holds the rows
\* resolved so far and the lookups made so far
RECURSIVE calc_loop(_, _, _, _, _)
calc_loop(cal, reader, rows, i, acc) ==
  IF i > Len(rows) THEN acc
  ELSE
    LET sid == rows[i]["sid"]
        ex_date == rows[i]["ex_date"]
        amount == rows[i]["amount"]
        day_loc == get_indexer_bfill(cal, ex_date)
        prev_close_date == calendar_getitem(cal, day_loc - 1)
    IN  IF prev_close_date[1] # "ok"
        THEN [acc EXCEPT !.exc = "IndexError"]
        ELSE
          LET prev_close == get_value(reader, sid, prev_close_date[2])
              asked == Append(acc.lookups, <<sid, prev_close_date[2]>>)
          IN  IF prev_close.kind \in {"NoDataOnDate", "nan"}
              THEN calc_loop(cal, reader, rows, i + 1,
                             [acc EXCEPT !.lookups = asked])
              ELSE calc_loop(cal, reader, rows, i + 1,
                     [acc EXCEPT
                        !.lookups = asked,
                        !.resolved = Append(@,
                           [sid |-> sid, effective_date |-> ex_date,
                            ratio |-> dividend_ratio(amount,
                                                    prev_close.close)])])

\* the result is [exc, frame, lookups]
calc_dividend_ratios(cal, reader, dividends) ==
  IF IsNoneOrEmpty(dividends)
  THEN [exc |-> "none", lookups |-> <<>>,
        frame |-> DataFrame([sid |-> "uint32", effective_date |-> "uint32",
                             ratio |-> "float64"], <<>>)]
  ELSE IF ~({"ex_date", "sid", "amount"} \subseteq DOMAIN dividends.dtypes)
       THEN [exc |-> "AttributeError", lookups |-> <<>>, frame |-> NoneFrame]
       ELSE IF "isnull" \notin NumpyNamespace
            THEN [exc |-> "AttributeError", lookups |-> <<>>,
                  frame |-> NoneFrame]
            ELSE
              LET acc == calc_loop(cal, reader, dividends.rows, 1,
                            [exc |-> "none", lookups |-> <<>>,
                             resolved |-> <<>>])
                  \* effective_mask = effective_dates != -1
                  kept == SelectSeq(acc.resolved,
                                    LAMBDA r : r["effective_date"] # -1)
              IN  [exc |-> acc.exc, lookups |-> acc.lookups,
                   frame |->
                     DataFrame(
                       [sid |-> dividends.dtypes["sid"],
                        effective_date |-> "uint32", ratio |-> "float64"],
                       [k \in 1..Len(kept) |->
                          [kept[k] EXCEPT !["effective_date"] =
                              effective_date_uint32(@)]])]

write_dividend_data(d, cal, reader, dividends, stock_dividends) ==
  LET r1 == write_dividends_(d, dividends)
      payouts == Then(r1, write_stock_dividends_(r1.db, stock_dividends))
      dividend_ratios == calc_dividend_ratios(cal, reader, dividends)
  IN  Then(payouts,
           IF dividend_ratios.exc # "none"
           THEN StepL(payouts.db, dividend_ratios.exc, <<>>,
                      dividend_ratios.lookups)
           ELSE LET w == write_frame(payouts.db, "dividends",
                                     dividend_ratios.frame)
                IN  StepL(w.db, w.exc, w.events, dividend_ratios.lookups))

\* conn.execute("CREATE INDEX name ON table(column)")
create_index(d, stmt) ==
  IF stmt[1] \in d.indices \/ stmt[2] \notin d.exists
  THEN Step(d, "OperationalError", <<>>)
  ELSE Step([d EXCEPT !.indices = @ \cup {stmt[1]}], "none",
            << <<"create_index", stmt[1]>> >>)

RECURSIVE create_indices(_, _)
create_indices(r, stmts) ==
  IF stmts = <<>> THEN r
  ELSE create_indices(Then(r, create_index(r.db, Head(stmts))),
                      Tail(stmts))

\* write creating the indices of splits as soon as splits is written
write_indexing_early(d, cal, reader, splits, mergers, dividends, stock_dividends) ==
  LET r1 == write_frame(d, "splits", splits)
      r1i == create_indices(r1, SubSeq(IndexStatements, 1, 2))
      r2 == Then(r1i, write_frame(r1i.db, "mergers", mergers))
      r3 == Then(r2, write_dividend_data(r2.db, cal, reader,
                                   dividends, stock_dividends))
  IN  create_indices(r3, SubSeq(IndexStatements, 3, Len(IndexStatements)))

write(d, cal, reader, splits, mergers, dividends, stock_dividends) ==
  LET r1 == write_frame(d, "splits", splits)
      r2 == Then(r1, write_frame(r1.db, "mergers", mergers))
      r3 == Then(r2, write_dividend_data(r2.db, cal, reader,
                                   dividends, stock_dividends))
  IN  create_indices(r3, IndexStatements)

-----------------------------------------------------------------------------
(* Reader *)

\* Timestamp(seconds, unit='s', tz='UTC'), as nanoseconds since the epoch
Timestamp(seconds) == seconds * NsPerSec

\* the result of a reader call: the exception raised ("none" when it
\* returned), the value returned and whether the cursor the call opened is
\* "open" or "closed" when the call ends ("none": no cursor was opened)
Answer(exc, result, cursor) ==
  [exc |-> exc, result |-> result, cursor |-> cursor]

get_adjustments_for_sid(d, table_name, sid) ==
  IF table_name \notin d.exists
     \/ ~({"effective_date", "ratio", "sid"} \subseteq
             DOMAIN d.cols[table_name])
  THEN Answer("OperationalError", <<>>, "open")
  ELSE LET adjustments_for_sid ==
             SelectSeq(d.rows[table_name], LAMBDA row : row["sid"] = sid)
       IN  Answer("none",
                  [i \in 1..Len(adjustments_for_sid) |->
                     <<Timestamp(adjustments_for_sid[i]["effective_date"]),
                       adjustments_for_sid[i]["ratio"]>>],
                  "closed")

\* zipline.utils.sqlite_utils.group_into_chunks(items): consecutive chunks of
\* chunk_size items, the last one shorter
ChunkSize == 2

RECURSIVE group_into_chunks(_)
group_into_chunks(items) ==
  IF Len(items) <= ChunkSize
  THEN (IF items = <<>> THEN <<>> ELSE <<items>>)
  ELSE <<SubSeq(items, 1, ChunkSize)>>
         \o group_into_chunks(SubSeq(items, ChunkSize + 1, Len(items)))

\* date.value / int(1e9) compared with a stored ex_date by SQLite: true
\* division, so the two are equal when date is that whole second
ex_date_matches(date_value, ex_date) == date_value = ex_date * NsPerSec

\* c.execute(query, t); c.fetchall() for one chunk: the rows of the table
\* with the ex_date and a sid of the chunk, in storage order
unpaid_query(d, tablename, date_value, chunk) ==
  SelectSeq(d.rows[tablename],
         LAMBDA row : /\ ex_date_matches(date_value, row["ex_date"])
                      /\ row["sid"] \in Range(chunk))

\* the chunk loop with the list of records reset in every pass
RECURSIVE chunk_loop_resetting(_, _, _, _, _, _, _)
chunk_loop_resetting(d, tablename, sid_columns, date_value, asset_finder, chunks, divs) ==
  IF chunks = <<>> THEN Answer("none", divs, "closed")
  ELSE IF tablename \notin d.exists
       THEN Answer("OperationalError", <<>>, "open")
       ELSE LET rows == unpaid_query(d, tablename, date_value, Head(chunks))
            IN  IF \E i \in 1..Len(rows) : \E c \in sid_columns :
                      rows[i][c] \notin asset_finder
                THEN Answer("SidsNotFound", <<>>, "open")
                ELSE chunk_loop_resetting(d, tablename, sid_columns,
                                          date_value, asset_finder,
                                          Tail(chunks), rows)

\* the chunk loop shared by the two ex-date queries, from chunk k on: divs
\* are the records built so far; sid_columns are the columns resolved
\* through asset_finder.retrieve_asset, which raises for an unknown sid
RECURSIVE chunk_loop(_, _, _, _, _, _, _)
chunk_loop(d, tablename, sid_columns, date_value, asset_finder, chunks, divs) ==
  IF chunks = <<>> THEN Answer("none", divs, "closed")
  ELSE IF tablename \notin d.exists
       THEN Answer("OperationalError", <<>>, "open")
       ELSE LET rows == unpaid_query(d, tablename, date_value, Head(chunks))
            IN  IF \E i \in 1..Len(rows) : \E c \in sid_columns :
                      rows[i][c] \notin asset_finder
                THEN Answer("SidsNotFound", <<>>, "open")
                ELSE chunk_loop(d, tablename, sid_columns, date_value,
                                asset_finder, Tail(chunks), divs \o rows)

\* Dividend(asset, amount, pay_date)
Dividend(row) ==
  [asset |-> row["sid"], amount |-> row["amount"],
   pay_date |-> Timestamp(row["pay_date"])]

\* StockDividend(asset, payment_asset, ratio, pay_date)
StockDividend(row) ==
  [asset |-> row["sid"], payment_asset |-> row["payment_sid"],
   ratio |-> row["ratio"], pay_date |-> Timestamp(row["pay_date"])]

get_dividends_with_ex_date(d, assets, date_value, asset_finder) ==
  LET a == chunk_loop(d, "dividend_payouts", {"sid"}, date_value,
                      asset_finder, group_into_chunks(assets), <<>>)
  IN  [a EXCEPT !.result = [i \in 1..Len(@) |-> Dividend(@[i])]]

get_stock_dividends_with_ex_date(d, assets, date_value, asset_finder) ==
  LET a == chunk_loop(d, "stock_dividend_payouts", {"sid", "payment_sid"},
                      date_value, asset_finder, group_into_chunks(assets),
                      <<>>)
  IN  [a EXCEPT !.result = [i \in 1..Len(@) |-> StockDividend(@[i])]]

\* _get_df_from_table: the table as a frame; with convert_dates its date
\* columns become UTC instants
get_df_from_table(d, table_name, date_cols, convert_dates) ==
  IF ~convert_dates THEN DataFrame(d.cols[table_name], d.rows[table_name])
  ELSE DataFrame(
         [c \in DOMAIN d.cols[table_name] |->
            IF c \in date_cols THEN "datetime64[ns, UTC]"
            ELSE d.cols[table_name][c]],
         [i \in 1..Len(d.rows[table_name]) |->
            [c \in DOMAIN d.cols[table_name] |->
               IF c \in date_cols THEN Timestamp(d.rows[table_name][i][c])
               ELSE d.rows[table_name][i][c]]])

\* pd.read_sql raises for a table that does not exist; no cursor of the
\* reader's own is opened
unpack_db_to_component_dfs(d, convert_dates) ==
  IF ~(TableNames \subseteq d.exists)
  THEN Answer("DatabaseError", <<>>, "none")
  ELSE Answer("none",
              [t_name \in TableNames |->
                 get_df_from_table(d, t_name, datetime_int_cols[t_name],
                                   convert_dates)],
              "none")

-----------------------------------------------------------------------------
(* The inputs of the calls *)

Sids == {1, 2, 3}

\* frame with the column col of dtype kind holding v in every row (added,
\* or replacing the column of that name)
WithColumn(frame, col, kind, v) ==
  DataFrame([c \in DOMAIN frame.dtypes \cup {col} |->
               IF c = col THEN kind ELSE frame.dtypes[c]],
            [i \in 1..Len(frame.rows) |->
               [c \in DOMAIN frame.dtypes \cup {col} |->
                  IF c = col THEN v ELSE frame.rows[i][c]]])

\* frame without the column col
WithoutColumn(frame, col) ==
  DataFrame([c \in DOMAIN frame.dtypes \ {col} |-> frame.dtypes[c]],
            [i \in 1..Len(frame.rows) |->
               [c \in DOMAIN frame.dtypes \ {col} |-> frame.rows[i][c]]])

\* frame without its rows
Emptied(frame) == DataFrame(frame.dtypes, <<>>)

\* a splits or mergers batch as the caller holds it: the dates are
\* datetime64[ns], one of them between two whole seconds, one before 1970
GoodAdjustments ==
  DataFrame(
    [sid |-> "int64", effective_date |-> "datetime64[ns]", ratio |-> "float64"],
    << [sid |-> 1, effective_date |-> 1500000000, ratio |-> 200],
       [sid |-> 2, effective_date |-> -1, ratio |-> 50] >>)

\* the batches write_frame is given: None, empty, as above, with an extra
\* column (also empty), with a column missing, with a column of another dtype
AdjustmentFrames ==
  { NoneFrame,
    Emptied(GoodAdjustments),
    GoodAdjustments,
    WithColumn(GoodAdjustments, "effective_date", "int64", 1),
    WithColumn(GoodAdjustments, "note", "float64", 0),
    Emptied(WithColumn(GoodAdjustments, "note", "float64", 0)),
    WithoutColumn(GoodAdjustments, "ratio"),
    WithoutColumn(GoodAdjustments, "effective_date"),
    WithColumn(GoodAdjustments, "sid", "int32", 1),
    WithColumn(GoodAdjustments, "ratio", "int64", 2),
    WithColumn(GoodAdjustments, "effective_date", "int32", 2) }

\* the (tablename, frame) arguments of write_frame
WriteFrameArgs ==
  { <<"splits", f>> : f \in AdjustmentFrames }
    \cup { <<"dividend_payouts", GoodAdjustments>> }

PayoutDtypes ==
  [sid |-> "int64", ex_date |-> "datetime64[ns]",
   declared_date |-> "datetime64[ns]", record_date |-> "datetime64[ns]",
   pay_date |-> "datetime64[ns]", amount |-> "float64"]

Payout(sid, ex_date, amount) ==
  [sid |-> sid, ex_date |-> ex_date, declared_date |-> 0,
   record_date |-> ex_date, pay_date |-> 2 * NsPerSec, amount |-> amount]

\* one payout per asset; the ex-dates fall on a session (1 s) and between
\* two sessions (1.5 s), so all three are stored with ex_date 1.  With the
\* calendar and the bar reader of Init the first has a prior close (50.00),
\* the second the missing value, the third no data
GoodDividends ==
  DataFrame(PayoutDtypes,
            << Payout(1, NsPerSec, 50), Payout(2, 1500000000, 0),
               Payout(3, NsPerSec, 100) >>)

\* ex-dates before the first session, on it, and after the last one
EdgeDividends ==
  DataFrame(PayoutDtypes,
            << Payout(1, -1, 50), Payout(1, 0, 50),
               Payout(2, 2100000000, 100) >>)

DividendFrames ==
  { NoneFrame,
    Emptied(GoodDividends),
    GoodDividends,
    EdgeDividends,
    WithColumn(GoodDividends, "note", "float64", 0),
    Emptied(WithColumn(GoodDividends, "note", "float64", 0)),
    WithoutColumn(GoodDividends, "amount"),
    WithoutColumn(GoodDividends, "ex_date"),
    Emptied(WithoutColumn(GoodDividends, "ex_date")),
    WithColumn(GoodDividends, "amount", "int64", 1),
    WithColumn(GoodDividends, "sid", "int32", 1),
    WithColumn(GoodDividends, "ex_date", "int32", 1) }

GoodStockDividends ==
  DataFrame(
    [sid |-> "int64", ex_date |-> "datetime64[ns]",
     declared_date |-> "datetime64[ns]", record_date |-> "datetime64[ns]",
     pay_date |-> "datetime64[ns]", payment_sid |-> "int64",
     ratio |-> "float64"],
    [i \in 1..3 |->
       [sid |-> i, ex_date |-> NsPerSec, declared_date |-> 0,
        record_date |-> NsPerSec, pay_date |-> 2 * NsPerSec,
        payment_sid |-> (i % 3) + 1, ratio |-> 150]])

BadStockDividends == WithColumn(GoodStockDividends, "payment_sid", "float64", 1)

\* the (dividends, stock_dividends) arguments of write_dividend_data
WriteDividendDataArgs ==
  { <<f, NoneFrame>> : f \in DividendFrames }
    \cup { <<NoneFrame, GoodStockDividends>>,
           <<GoodDividends, GoodStockDividends>>,
           <<GoodDividends, BadStockDividends>> }

IntDateAdjustments == WithColumn(GoodAdjustments, "effective_date", "int64", 1)

\* the (splits, mergers, dividends, stock_dividends) arguments of write
WriteArgs ==
  { <<NoneFrame, NoneFrame, NoneFrame, NoneFrame>>,
    <<GoodAdjustments, NoneFrame, Emptied(GoodDividends), NoneFrame>>,
    <<GoodAdjustments, IntDateAdjustments, NoneFrame, GoodStockDividends>>,
    <<Emptied(GoodAdjustments), GoodAdjustments, NoneFrame, NoneFrame>>,
    <<NoneFrame, NoneFrame, GoodDividends, NoneFrame>>,
    <<GoodAdjustments, GoodAdjustments, GoodDividends, GoodStockDividends>>,
    <<NoneFrame, NoneFrame, EdgeDividends, NoneFrame>>,
    <<WithColumn(GoodAdjustments, "note", "float64", 0), GoodAdjustments,
      NoneFrame, NoneFrame>>,
    <<GoodAdjustments, WithColumn(GoodAdjustments, "sid", "int32", 1),
      NoneFrame, NoneFrame>>,
    <<GoodAdjustments, NoneFrame, WithoutColumn(GoodDividends, "amount"),
      NoneFrame>>,
    <<NoneFrame, NoneFrame, GoodDividends, BadStockDividends>> }

\* the assets of a set in ascending order
RECURSIVE Ascending(_)
Ascending(S) ==
  IF S = {} THEN <<>>
  ELSE LET m == CHOOSE x \in S : \A y \in S : x <= y
       IN  <<m>> \o Ascending(S \ {m})

Reverse(seq) == [i \in 1..Len(seq) |-> seq[Len(seq) + 1 - i]]

\* the asset lists asked for: every set of assets, and all of them reversed
AssetLists ==
  { Ascending(S) : S \in SUBSET Sids } \cup { Reverse(Ascending(Sids)) }

\* the dates asked for: a session and an instant between two seconds
QueryDates == { NsPerSec, 1500000000 }

\* the sids the asset finder knows
AssetFinders == { Sids, Sids \ {2} }

-----------------------------------------------------------------------------
(* The calls *)

Init ==
  /\ db = [exists |-> {}, indices |-> {},
           cols |-> [t \in TableNames |-> <<>>],
           rows |-> [t \in TableNames |-> <<>>]]
  /\ calendar = <<0, NsPerSec, 2 * NsPerSec>>
  /\ bar_reader =
       ( <<1, 0>> :> [kind |-> "close", close |-> 5000]
         @@ <<1, NsPerSec>> :> [kind |-> "close", close |-> 100]
         @@ <<1, 2 * NsPerSec>> :> [kind |-> "close", close |-> 100]
         @@ <<2, NsPerSec>> :> [kind |-> "nan", close |-> 0] )
  /\ last = [op |-> "init", args |-> <<>>, exc |-> "none", events |-> <<>>,
             lookups |-> <<>>, result |-> <<>>, cursor |-> "none",
             before |-> [t \in TableNames |-> 0]]
  /\ history = <<>>
  /\ written = [t \in TableNames |-> <<>>]

\* written after a call that stored the batch frame in the table t
Recorded(w, events, t, frame) ==
  IF <<"to_sql", t>> \in Range(events) /\ ~IsNoneOrEmpty(frame)
  THEN [w EXCEPT ![t] = Append(@, frame)]
  ELSE w

\* the row count of every table
RowCounts(d) == [t \in TableNames |-> Len(d.rows[t])]

ReaderOps ==
  {"get_adjustments_for_sid", "get_dividends_with_ex_date",
   "get_stock_dividends_with_ex_date", "unpack_db_to_component_dfs"}

\* A reader call changes nothing but last, so every state reached by a call
\* made after a reader call is also reached by making it without the reader
\* call: the calls are explored from the states the writer calls leave.
AfterWriterCall == last.op \notin ReaderOps

WriterCall(op, args, r) ==
  /\ AfterWriterCall
  /\ Len(history) < MaxWriterCalls
  /\ db' = r.db
  /\ last' = [op |-> op, args |-> args, exc |-> r.exc, events |-> r.events,
              lookups |-> r.lookups, result |-> <<>>, cursor |-> "none",
              before |-> RowCounts(db)]
  /\ history' = Append(history, op)
  /\ UNCHANGED <<calendar, bar_reader>>

ReaderCall(op, args, a) ==
  /\ AfterWriterCall
  /\ Len(history) <= MaxCallsBeforeRead
  /\ last' = [op |-> op, args |-> args, exc |-> a.exc, events |-> <<>>,
              lookups |-> <<>>, result |-> a.result, cursor |-> a.cursor,
              before |-> RowCounts(db)]
  /\ UNCHANGED <<db, calendar, bar_reader, history, written>>

Write ==
  \E args \in WriteArgs :
    LET splits == args[1]
        mergers == args[2]
        dividends == args[3]
        stock_dividends == args[4]
        r == write(db, calendar, bar_reader, splits, mergers, dividends,
                   stock_dividends)
    IN  /\ WriterCall("write",
                      [splits |-> splits, mergers |-> mergers,
                       dividends |-> dividends,
                       stock_dividends |-> stock_dividends], r)
        /\ written' =
             Recorded(Recorded(Recorded(Recorded(written,
               r.events, "splits", splits),
               r.events, "mergers", mergers),
               r.events, "dividend_payouts", dividends),
               r.events, "stock_dividend_payouts", stock_dividends)

WriteFrame ==
  \E args \in WriteFrameArgs :
    LET tablename == args[1]
        frame == args[2]
        r == write_frame(db, tablename, frame)
    IN  /\ WriterCall("write_frame",
                      [tablename |-> tablename, frame |-> frame], r)
        /\ written' = Recorded(written, r.events, tablename, frame)

WriteDividendData ==
  \E args \in WriteDividendDataArgs :
    LET dividends == args[1]
        stock_dividends == args[2]
        r == write_dividend_data(db, calendar, bar_reader, dividends,
                                 stock_dividends)
    IN  /\ WriterCall("write_dividend_data",
                      [dividends |-> dividends,
                       stock_dividends |-> stock_dividends], r)
        /\ written' =
             Recorded(Recorded(written,
               r.events, "dividend_payouts", dividends),
               r.events, "stock_dividend_payouts", stock_dividends)

GetAdjustmentsForSid ==
  \E table_name \in SQLITE_ADJUSTMENT_TABLENAMES, sid \in Sids :
    ReaderCall("get_adjustments_for_sid",
               [table_name |-> table_name, sid |-> sid],
               get_adjustments_for_sid(db, table_name, sid))

GetDividendsWithExDate ==
  \E assets \in AssetLists, date \in QueryDates,
     asset_finder \in AssetFinders :
    ReaderCall("get_dividends_with_ex_date",
               [assets |-> assets, date |-> date,
                asset_finder |-> asset_finder],
               get_dividends_with_ex_date(db, assets, date, asset_finder))

GetStockDividendsWithExDate ==
  \E assets \in AssetLists, date \in QueryDates,
     asset_finder \in AssetFinders :
    ReaderCall("get_stock_dividends_with_ex_date",
               [assets |-> assets, date |-> date,
                asset_finder |-> asset_finder],
               get_stock_dividends_with_ex_date(db, assets, date,
                                                asset_finder))

UnpackDbToComponentDfs ==
  \E convert_dates \in BOOLEAN :
    ReaderCall("unpack_db_to_component_dfs",
               [convert_dates |-> convert_dates],
               unpack_db_to_component_dfs(db, convert_dates))

Next ==
  \/ Write
  \/ WriteFrame
  \/ WriteDividendData
  \/ GetAdjustmentsForSid
  \/ GetDividendsWithExDate
  \/ GetStockDividendsWithExDate
  \/ UnpackDbToComponentDfs

Spec == Init /\ [][Next]_vars

-----------------------------------------------------------------------------
(* Properties *)

WriterOps == {"write", "write_frame", "write_dividend_data"}

\* a payout batch as documented: the six columns, datetime64 dates, rows
WellFormedPayouts(frame) ==
  ~frame.none /\ frame.dtypes = PayoutDtypes /\ frame.rows # <<>>

\* the last call was given a well-formed payout batch, and nothing else
\* that could make it fail
PayoutCall(ops) ==
  /\ last.op \in ops
  /\ WellFormedPayouts(last.args.dividends)
  /\ last.args.stock_dividends.none
  /\ last.op = "write" => last.args.splits.none /\ last.args.mergers.none

\* the trading session immediately before the earliest session that is at
\* or after ex_date (none when that session is the first, or does not exist)
ReferenceDays(ex_date) ==
  { calendar[j] : j \in { i \in 1..(Len(calendar) - 1) :
                            calendar[i] < ex_date /\ calendar[i + 1] >= ex_date } }

\* what the bar reader answers for the payout's reference day
PriorClose(payout) ==
  { get_value(bar_reader, payout["sid"], day) :
      day \in ReferenceDays(payout["ex_date"]) }

Priced(payout) == \E c \in PriorClose(payout) : c.kind = "close"

\* the rows of the derived table dividends for a payout
RatioRows(payout) ==
  { k \in 1..Len(db.rows["dividends"]) :
      /\ db.rows["dividends"][k]["sid"] = payout["sid"]
      /\ db.rows["dividends"][k]["effective_date"] =
           payout["ex_date"] \div NsPerSec }

\* C1: a call of write_dividend_data with a non-empty payout batch returns,
\* and then every payout of the batch is a row of dividend_payouts and the
\* derived table dividends has a row for a payout if and only if the bar
\* reader has a close, not the missing value, for its reference day.
C1_PayoutsStoredRatiosForPricedOnly ==
  PayoutCall({"write_dividend_data"}) =>
    LET rows == last.args.dividends.rows
    IN  /\ last.exc = "none"
        /\ \A i \in 1..Len(rows) :
             \E k \in 1..Len(db.rows["dividend_payouts"]) :
               /\ db.rows["dividend_payouts"][k]["sid"] = rows[i]["sid"]
               /\ db.rows["dividend_payouts"][k]["amount"] = rows[i]["amount"]
               /\ db.rows["dividend_payouts"][k]["ex_date"] =
                    rows[i]["ex_date"] \div NsPerSec
        /\ \A i \in 1..Len(rows) :
             Priced(rows[i]) <=> RatioRows(rows[i]) # {}

\* C2: for each payout row, in order, calc_dividend_ratios asks the bar
\* reader for the close of the payout's sid on the session immediately
\* before the earliest session at or after the ex-date.
C2_LookupOnSessionBeforeExDate ==
  PayoutCall({"write", "write_dividend_data"}) =>
    LET rows == last.args.dividends.rows
    IN  /\ Len(last.lookups) = Len(rows)
        /\ \A i \in 1..Len(rows) :
             /\ last.lookups[i][1] = rows[i]["sid"]
             /\ last.lookups[i][2] \in ReferenceDays(rows[i]["ex_date"])

\* C3: every payout with amount a and prior close c has a derived row whose
\* ratio is 1.0 - a/c, that is ratio * c = c - a (in hundredths:
\* ratio * c = 100 * (c - a)); amount 0.50 on close 50.00 gives 0.99.
C3_RatioIsOneMinusAmountOverClose ==
  PayoutCall({"write", "write_dividend_data"}) =>
    \A i \in 1..Len(last.args.dividends.rows) :
      LET payout == last.args.dividends.rows[i]
      IN  \A c \in PriorClose(payout) :
            c.kind = "close" =>
              \E k \in RatioRows(payout) :
                db.rows["dividends"][k]["ratio"] * c.close =
                  100 * (c.close - payout["amount"])

\* C4: a write on a fresh store whose payout batch has a payout the bar
\* reader has no data for returns: nothing is raised, the table dividends is
\* written and the ten indices are created.
C4_NoDataDoesNotAbortWrite ==
  ( /\ PayoutCall({"write"})
    /\ history = <<"write">>
    /\ \E i \in 1..Len(last.args.dividends.rows) :
         \E c \in PriorClose(last.args.dividends.rows[i]) :
           c.kind = "NoDataOnDate" )
  => /\ last.exc = "none"
     /\ "dividends" \in db.exists
     /\ \A i \in 1..Len(IndexStatements) : IndexStatements[i][1] \in db.indices

\* the columns that hold dates
DateColumns ==
  {"effective_date", "ex_date", "declared_date", "record_date", "pay_date"}

\* the batch has an extra column, lacks a column, or has a column of the
\* wrong numeric kind (a date column is a datetime64 or an int64 of seconds)
MismatchedBatch(frame, declared) ==
  /\ ~frame.none
  /\ \/ DOMAIN frame.dtypes # DOMAIN declared
     \/ \E c \in DOMAIN declared \cap DOMAIN frame.dtypes :
          IF c \in DateColumns
          THEN frame.dtypes[c] \notin {"int64", "datetime64[ns]"}
          ELSE frame.dtypes[c] # declared[c]

\* the same of a non-empty batch, the date columns left aside
MismatchedRows(frame, declared) ==
  /\ ~IsNoneOrEmpty(frame)
  /\ \/ DOMAIN frame.dtypes # DOMAIN declared
     \/ \E c \in (DOMAIN declared \cap DOMAIN frame.dtypes) \ DateColumns :
          frame.dtypes[c] # declared[c]

\* the last call raised and the table has the row count it had before it
Rejected(tablename) ==
  last.exc # "none" /\ Len(db.rows[tablename]) = last.before[tablename]

\* every batch of the last call that Mismatched holds of was rejected
RejectsEvery(Mismatched(_, _)) ==
  /\ ( /\ last.op = "write_frame"
       /\ last.args.tablename \in SQLITE_ADJUSTMENT_TABLENAMES
       /\ Mismatched(last.args.frame, SQLITE_ADJUSTMENT_COLUMN_DTYPES) )
     => Rejected(last.args.tablename)
  /\ ( /\ last.op = "write"
       /\ Mismatched(last.args.splits, SQLITE_ADJUSTMENT_COLUMN_DTYPES) )
     => Rejected("splits")
  /\ ( /\ last.op = "write"
       /\ Mismatched(last.args.mergers, SQLITE_ADJUSTMENT_COLUMN_DTYPES) )
     => Rejected("mergers")
  /\ ( /\ last.op \in {"write", "write_dividend_data"}
       /\ Mismatched(last.args.dividends,
                     SQLITE_DIVIDEND_PAYOUT_COLUMN_DTYPES) )
     => Rejected("dividend_payouts")
  /\ ( /\ last.op \in {"write", "write_dividend_data"}
       /\ Mismatched(last.args.stock_dividends,
                     SQLITE_STOCK_DIVIDEND_PAYOUT_COLUMN_DTYPES) )
     => Rejected("stock_dividend_payouts")

DeclaredColumns ==
  [t \in TableNames |->
     IF t = "dividend_payouts" THEN SQLITE_DIVIDEND_PAYOUT_COLUMN_DTYPES
     ELSE IF t = "stock_dividend_payouts"
          THEN SQLITE_STOCK_DIVIDEND_PAYOUT_COLUMN_DTYPES
          ELSE SQLITE_ADJUSTMENT_COLUMN_DTYPES]

\* the table exists with the declared columns and, on a store that had
\* nothing written before this call, with zero rows
CreatedEmpty(t) ==
  /\ t \in db.exists
  /\ db.cols[t] = DeclaredColumns[t]
  /\ Len(history) = 1 => db.rows[t] = <<>>

\* C6: after write_frame or write returns, a table whose batch was None or
\* empty exists with the declared columns and (on a fresh store) zero rows,
\* and after write returns all five tables exist with their declared
\* columns, whichever inputs were None or empty.
C6_EmptyBatchStillCreatesTable ==
  /\ ( /\ last.op = "write_frame"
       /\ last.args.tablename \in SQLITE_ADJUSTMENT_TABLENAMES
       /\ IsNoneOrEmpty(last.args.frame) )
     => last.exc = "none" /\ CreatedEmpty(last.args.tablename)
  /\ (last.op = "write" /\ last.exc = "none") =>
       /\ \A t \in TableNames : t \in db.exists /\ db.cols[t] = DeclaredColumns[t]
       /\ IsNoneOrEmpty(last.args.splits) => CreatedEmpty("splits")
       /\ IsNoneOrEmpty(last.args.mergers) => CreatedEmpty("mergers")
       /\ IsNoneOrEmpty(last.args.dividends) =>
            CreatedEmpty("dividends") /\ CreatedEmpty("dividend_payouts")
       /\ IsNoneOrEmpty(last.args.stock_dividends) =>
            CreatedEmpty("stock_dividend_payouts")

\* write returned on a fresh store with splits given, mergers None and
\* dividends empty
C6_Witness ==
  /\ last.op = "write"
  /\ last.exc = "none"
  /\ history = <<"write">>
  /\ last.args.mergers.none
  /\ ~last.args.dividends.none
  /\ last.args.dividends.rows = <<>>
  /\ db.rows["splits"] # <<>>
  /\ db.rows["mergers"] = <<>>
  /\ TableNames \subseteq db.exists

\* the stored rows of table t with the ex_date and an asset of the last call
MatchingRows(t) ==
  SelectSeq(db.rows[t],
            LAMBDA row : /\ row["ex_date"] * NsPerSec = last.args.date
                         /\ row["sid"] \in Range(last.args.assets))

\* C7: an ex-date query that returns, returns one record for each stored
\* payout row whose ex_date is the date and whose sid is one of the assets,
\* no other, and the same records as one query per asset; this for every
\* number of assets, within one chunk or over several.
C7_ChunkedQueryReturnsMatchingRows ==
  /\ (last.op = "get_dividends_with_ex_date" /\ last.exc = "none") =>
       /\ Len(last.result) = Len(MatchingRows("dividend_payouts"))
       /\ Range(last.result) =
            { Dividend(row) : row \in Range(MatchingRows("dividend_payouts")) }
       /\ Range(last.result) =
            UNION { Range(get_dividends_with_ex_date(
                            db, <<a>>, last.args.date,
                            last.args.asset_finder).result) :
                      a \in Range(last.args.assets) }
  /\ (last.op = "get_stock_dividends_with_ex_date" /\ last.exc = "none") =>
       /\ Len(last.result) = Len(MatchingRows("stock_dividend_payouts"))
       /\ Range(last.result) =
            { StockDividend(row) :
                row \in Range(MatchingRows("stock_dividend_payouts")) }
       /\ Range(last.result) =
            UNION { Range(get_stock_dividends_with_ex_date(
                            db, <<a>>, last.args.date,
                            last.args.asset_finder).result) :
                      a \in Range(last.args.assets) }

\* a query for more assets than one chunk holds returned the payouts of all
\* of them
C7_Witness ==
  /\ last.op = "get_dividends_with_ex_date"
  /\ last.exc = "none"
  /\ Len(last.args.assets) > ChunkSize
  /\ Len(last.result) = Len(last.args.assets)

\* the rows of a batch as the export with convert_dates returns them: each
\* date the instant given (a datetime64, or an int64 of seconds) truncated to
\* the whole second
ExportedRows(batch) ==
  [i \in 1..Len(batch.rows) |->
     [c \in DOMAIN batch.dtypes |->
        IF c \notin DateColumns THEN batch.rows[i][c]
        ELSE IF batch.dtypes[c] = "datetime64[ns]"
             THEN batch.rows[i][c] - (batch.rows[i][c] % NsPerSec)
             ELSE batch.rows[i][c] * NsPerSec]]

RECURSIVE ExportedBatches(_)
ExportedBatches(batches) ==
  IF batches = <<>> THEN <<>>
  ELSE ExportedRows(Head(batches)) \o ExportedBatches(Tail(batches))

\* the tables that hold what the caller gave, as opposed to derived rows
GivenTables == TableNames \ {"dividends"}

\* C8: when the store was written with write, every batch given passed the
\* validation and was stored, and the tables are exported with
\* convert_dates, the export returns, for splits, mergers and the two payout
\* tables, the rows that were written, each date the instant written
\* truncated to the whole second.
C8_ExportReturnsWhatWasWritten ==
  ( /\ last.op = "unpack_db_to_component_dfs"
    /\ last.args.convert_dates
    /\ Range(history) = {"write"}
    /\ GivenTables \subseteq db.exists
    /\ \E t \in GivenTables : written[t] # <<>> )
  => /\ last.exc = "none"
     /\ \A t \in GivenTables :
          last.result[t].rows = ExportedBatches(written[t])

\* C9: when a call of get_adjustments_for_sid, get_dividends_with_ex_date or
\* get_stock_dividends_with_ex_date ends, returning or raising, the cursor
\* it opened is closed.
C9_CursorClosedOnEveryExit ==
  last.op \in {"get_adjustments_for_sid", "get_dividends_with_ex_date",
               "get_stock_dividends_with_ex_date"}
    => last.cursor = "closed"

\* the positions in the last call's events of the writes of table t
TableWrites(t) ==
  { i \in 1..Len(last.events) : last.events[i] = <<"to_sql", t>> }

IndexCreations ==
  { i \in 1..Len(last.events) : last.events[i][1] = "create_index" }

\* C10: in a call of write every index is created after all five tables
\* have been written; write_frame and write_dividend_data create no index,
\* so a store has indices only after a call of write.
C10_IndicesOnlyInWriteAndLast ==
  /\ last.op = "write" =>
       \A i \in IndexCreations :
         \A t \in TableNames :
           /\ TableWrites(t) # {}
           /\ \A j \in TableWrites(t) : j < i
  /\ last.op \in {"write_frame", "write_dividend_data"} => IndexCreations = {}
  /\ db.indices # {} => "write" \in Range(history)

\* a write that wrote the five tables and then created the ten indices
C10_Witness ==
  /\ last.op = "write"
  /\ last.exc = "none"
  /\ Cardinality(IndexCreations) = Len(IndexStatements)
  /\ \A t \in TableNames : TableWrites(t) # {}
  /\ db.rows["splits"] # <<>>

\* C11: after a call given a well-formed payout batch, every payout with a
\* prior close has a row in the derived table dividends whose effective_date
\* is the payout's ex-date in whole seconds since the epoch (the floor of
\* its nanoseconds over 10^9).
C11_EffectiveDateIsExDateInSeconds ==
  PayoutCall({"write", "write_dividend_data"}) =>
    \A i \in 1..Len(last.args.dividends.rows) :
      LET payout == last.args.dividends.rows[i]
      IN  Priced(payout) =>
            \E k \in 1..Len(db.rows["dividends"]) :
              LET row == db.rows["dividends"][k]
              IN  /\ row["sid"] = payout["sid"]
                  /\ row["effective_date"] <= payout["ex_date"] \div NsPerSec
                  /\ row["effective_date"] >= payout["ex_date"] \div NsPerSec

\* the batches given to the last call of write are as documented
DocumentedBatches ==
  /\ ~MismatchedBatch(last.args.splits, SQLITE_ADJUSTMENT_COLUMN_DTYPES)
  /\ ~MismatchedBatch(last.args.mergers, SQLITE_ADJUSTMENT_COLUMN_DTYPES)
  /\ ~MismatchedBatch(last.args.dividends, PayoutDtypes)
  /\ ~MismatchedBatch(last.args.stock_dividends,
                      SQLITE_STOCK_DIVIDEND_PAYOUT_COLUMN_DTYPES)

\* the last call was a write on a store an earlier write had completed on:
\* the indices exist and this call created none of them
WriteAfterCompletedWrite ==
  /\ last.op = "write"
  /\ db.indices # {}
  /\ IndexCreations = {}

\* the rows a batch appends to its table
BatchRows(frame) == IF frame.none THEN 0 ELSE Len(frame.rows)

\* C12: a write of documented batches made after a write completed on the
\* store raises at the first index creation (OperationalError: the index
\* exists), after it wrote all five tables, its batches appended to them.
C12_SecondWriteRaisesAtFirstIndex ==
  (WriteAfterCompletedWrite /\ DocumentedBatches) =>
    /\ last.exc = "OperationalError"
    /\ \A t \in TableNames : TableWrites(t) # {}
    /\ Len(db.rows["splits"]) =
         last.before["splits"] + BatchRows(last.args.splits)
    /\ Len(db.rows["mergers"]) =
         last.before["mergers"] + BatchRows(last.args.mergers)
    /\ Len(db.rows["dividend_payouts"]) =
         last.before["dividend_payouts"] + BatchRows(last.args.dividends)

====
